---------------------------- MODULE Spec2Model ----------------------------
(***************************************************************************)
(* ScratchBook (src/ScratchBook.py): the buffer-to-file binding lifecycle  *)
(* of the plugin, as a state machine over the editor's views, the          *)
(* filesystem, the pending-save map and the queue of deferred callbacks.   *)
(*                                                                         *)
(* Text is a sequence of one-character strings; a path is a sequence of    *)
(* string chunks whose concatenation is the path ("/" is always a chunk of *)
(* its own), so str.startswith on paths is the prefix order on sequences.  *)
(***************************************************************************)
EXTENDS Integers, Sequences, FiniteSets, TLC

(***************************************************************************)
(* Bounds of the model.                                                    *)
(***************************************************************************)
NumViews == 2          \* views the editor may open
MaxClock == 0          \* a run starts at a clock value in 0..MaxClock
MaxTimeouts == 2       \* deferred callbacks outstanding at once
MaxMinLen == 1         \* min_content_length ranges over 0..MaxMinLen
MaxNewFiles == 2       \* files the plugin may create in one run

Views == 1..NumViews

VARIABLES
    settings,        \* the result of get_settings(), fixed during a run
    linesep,         \* os.linesep of the platform
    now,             \* datetime.datetime.now(), in seconds: file names
                     \* collide within one second
    status,          \* view -> "none" (not created), "open", "closed"
    content,         \* view -> text of the buffer
    file_name,       \* view -> view.file_name(), NoFile when untitled
    scratch,         \* view -> view.is_scratch()
    fs,              \* the files on disk: path -> text
    mtime,           \* os.path.getmtime: path -> time of the last write
    dirs,            \* the directories on disk
    pending_saves,   \* ScratchBookListener._pending_saves (its keys)
    timeouts,        \* callbacks given to sublime.set_timeout, oldest first
    panel            \* the rows of the quick panel of the browse command

vars == <<settings, linesep, now, status, content, file_name, scratch, fs,
          mtime, dirs, pending_saves, timeouts, panel>>

(***************************************************************************)
(* Text.                                                                   *)
(***************************************************************************)
Min(a, b) == IF a < b THEN a ELSE b

IsSpace(c) == c \in {" ", "\t", "\n", "\r"}

RECURSIVE LStrip(_)
LStrip(s) == IF s # <<>> /\ IsSpace(Head(s)) THEN LStrip(Tail(s)) ELSE s

RECURSIVE RStrip(_)
RStrip(s) ==
    IF s # <<>> /\ IsSpace(s[Len(s)]) THEN RStrip(SubSeq(s, 1, Len(s) - 1)) ELSE s

\* str.strip()
Strip(s) == RStrip(LStrip(s))

\* str.startswith
StartsWith(s, p) == Len(p) <= Len(s) /\ SubSeq(s, 1, Len(p)) = p

\* str.endswith
EndsWith(s, p) == Len(p) <= Len(s) /\ SubSeq(s, Len(s) - Len(p) + 1, Len(s)) = p

Digits == <<"0", "1", "2", "3", "4", "5", "6", "7", "8", "9">>

\* str(n) of a natural number, one chunk per decimal digit
RECURSIVE ToStr(_)
ToStr(n) ==
    IF n < 10 THEN <<Digits[n + 1]>> ELSE ToStr(n \div 10) \o <<Digits[(n % 10) + 1]>>

(***************************************************************************)
(* A text-mode file (open(path, "w", encoding="utf-8"), newline=None)      *)
(* writes each "\n" as os.linesep; UTF-8 itself is one-to-one on text.     *)
(***************************************************************************)
LF == <<"\n">>
CRLF == <<"\r", "\n">>

RECURSIVE WriteText(_, _)
WriteText(s, sep) ==
    IF s = <<>> THEN <<>>
    ELSE (IF Head(s) = "\n" THEN sep ELSE <<Head(s)>>) \o WriteText(Tail(s), sep)

(***************************************************************************)
(* Paths (os.path on a POSIX-style separator).                             *)
(***************************************************************************)
NoFile == <<>>     \* view.file_name() of an untitled buffer (None: falsy)

\* os.path.normpath: runs of separators collapse and a trailing separator
\* goes (no path of the model holds a "." or ".." component)
RECURSIVE NormPath(_)
NormPath(p) ==
    IF Len(p) <= 1 THEN p
    ELSE IF p[Len(p)] = "/" THEN NormPath(SubSeq(p, 1, Len(p) - 1))
    ELSE IF Head(p) = "/" /\ p[2] = "/" THEN NormPath(Tail(p))
    ELSE <<Head(p)>> \o NormPath(Tail(p))

\* os.path.join(a, b) for a relative b
Join(a, b) == IF a = <<>> \/ a[Len(a)] = "/" THEN a \o b ELSE a \o <<"/">> \o b

\* the naive containment test of the code: normpath(file).startswith(folder)
IsUnder(file, folder) == StartsWith(NormPath(file), folder)

\* true containment: the folder itself or a path below it
Contained(file, folder) ==
    LET f == NormPath(file)
    IN  /\ StartsWith(f, folder)
        /\ Len(f) > Len(folder) => f[Len(folder) + 1] = "/"

\* every directory os.makedirs(path) makes sure of: path and its ancestors
Ancestors(path) ==
    LET p == NormPath(path)
    IN  {SubSeq(p, 1, i) : i \in {j \in 1..Len(p) : j = Len(p) \/ p[j + 1] = "/"}}
            \ {<<"/">>, <<>>}

(***************************************************************************)
(* detect_extension: the content classifier.  Regular expressions are      *)
(* spelled out as predicates on positions 1..Len(s) of the stripped text.  *)
(***************************************************************************)
UpperCase == <<"A", "B", "C", "D", "E", "F", "G", "H", "I", "J", "K", "L", "M",
               "N", "O", "P", "Q", "R", "S", "T", "U", "V", "W", "X", "Y", "Z">>
LowerCase == <<"a", "b", "c", "d", "e", "f", "g", "h", "i", "j", "k", "l", "m",
               "n", "o", "p", "q", "r", "s", "t", "u", "v", "w", "x", "y", "z">>
Range(f) == {f[i] : i \in DOMAIN f}

IsAlpha(c) == c \in Range(UpperCase) \cup Range(LowerCase)      \* [a-zA-Z]
IsDigit(c) == c \in Range(Digits)                                \* \d
IsWord(c) == IsAlpha(c) \/ IsDigit(c) \/ c = "_"                 \* \w

\* the character folded as re.IGNORECASE folds it
Lower(c) ==
    IF c \in Range(UpperCase)
    THEN LowerCase[CHOOSE i \in DOMAIN UpperCase : UpperCase[i] = c]
    ELSE c
LowerAll(s) == [i \in DOMAIN s |-> Lower(s[i])]

\* the character at position i, "" beyond either end
At(s, i) == IF i >= 1 /\ i <= Len(s) THEN s[i] ELSE ""

\* the literal lit stands at position i of s
LitAt(s, i, lit) ==
    i >= 1 /\ i + Len(lit) - 1 <= Len(s) /\ SubSeq(s, i, i + Len(lit) - 1) = lit
\* the same, ignoring case (lit is lower case)
LitAtI(s, i, lit) ==
    i >= 1 /\ i + Len(lit) - 1 <= Len(s)
    /\ LowerAll(SubSeq(s, i, i + Len(lit) - 1)) = lit

\* ^ under re.MULTILINE: position i starts a line
LineStart(s, i) == i = 1 \/ (i >= 2 /\ i <= Len(s) + 1 /\ s[i - 1] = "\n")

\* the first position at or after i that holds no digit
RECURSIVE DigitsEnd(_, _)
DigitsEnd(s, i) == IF IsDigit(At(s, i)) THEN DigitsEnd(s, i + 1) ELSE i

LIT_null == <<"n", "u", "l", "l">>
LIT_true == <<"t", "r", "u", "e">>
LIT_false == <<"f", "a", "l", "s", "e">>
LIT_NaN == <<"N", "a", "N">>
LIT_Infinity == <<"I", "n", "f", "i", "n", "i", "t", "y">>
LIT_NegInfinity == <<"-", "I", "n", "f", "i", "n", "i", "t", "y">>

\* ---- json.loads (strict): 0 is failure, else the position after the value
JWs(c) == c \in {" ", "\t", "\n", "\r"}

RECURSIVE JSkip(_, _)
JSkip(s, i) == IF JWs(At(s, i)) THEN JSkip(s, i + 1) ELSE i

HexDigit(c) == IsDigit(c) \/ Lower(c) \in {"a", "b", "c", "d", "e", "f"}

\* py_scanstring from the position after the opening quote
RECURSIVE JString(_, _)
JString(s, j) ==
    LET c == At(s, j)
    IN  IF c = "" THEN 0
        ELSE IF c = "\"" THEN j + 1
        ELSE IF c = "\\"
             THEN LET e == At(s, j + 1)
                  IN  IF e \in {"\"", "\\", "/", "b", "f", "n", "r", "t"}
                      THEN JString(s, j + 2)
                      ELSE IF e = "u" /\ \A k \in 2..5 : HexDigit(At(s, j + k))
                      THEN JString(s, j + 6)
                      ELSE 0
        ELSE IF c \in {"\n", "\t", "\r"} THEN 0
        ELSE JString(s, j + 1)

\* NUMBER_RE: (-?(?:0|[1-9]\d*))(\.\d+)?([eE][-+]?\d+)?
JNumber(s, i) ==
    LET j0 == IF At(s, i) = "-" THEN i + 1 ELSE i
        j1 == IF At(s, j0) = "0" THEN j0 + 1
              ELSE IF IsDigit(At(s, j0)) THEN DigitsEnd(s, j0) ELSE 0
        j2 == IF At(s, j1) = "." /\ IsDigit(At(s, j1 + 1))
              THEN DigitsEnd(s, j1 + 1) ELSE j1
        k  == IF At(s, j2 + 1) \in {"+", "-"} THEN j2 + 2 ELSE j2 + 1
        j3 == IF At(s, j2) \in {"e", "E"} /\ IsDigit(At(s, k))
              THEN DigitsEnd(s, k) ELSE j2
    IN  IF j1 = 0 THEN 0 ELSE j3

RECURSIVE JValue(_, _), JArray(_, _), JObject(_, _)

\* scan_once at position i
JValue(s, i) ==
    LET c == At(s, i)
    IN  IF c = "" THEN 0
        ELSE IF c = "\"" THEN JString(s, i + 1)
        ELSE IF c = "{"
             THEN LET j == JSkip(s, i + 1)
                  IN  IF At(s, j) = "}" THEN j + 1 ELSE JObject(s, j)
        ELSE IF c = "["
             THEN LET j == JSkip(s, i + 1)
                  IN  IF At(s, j) = "]" THEN j + 1 ELSE JArray(s, j)
        ELSE IF LitAt(s, i, LIT_null) THEN i + 4
        ELSE IF LitAt(s, i, LIT_true) THEN i + 4
        ELSE IF LitAt(s, i, LIT_false) THEN i + 5
        ELSE IF JNumber(s, i) # 0 THEN JNumber(s, i)
        ELSE IF LitAt(s, i, LIT_NaN) THEN i + 3
        ELSE IF LitAt(s, i, LIT_Infinity) THEN i + 8
        ELSE IF LitAt(s, i, LIT_NegInfinity) THEN i + 9
        ELSE 0

\* JSONArray from the first element at i
JArray(s, i) ==
    LET v == JValue(s, i)
        j == JSkip(s, v)
    IN  IF v = 0 THEN 0
        ELSE IF At(s, j) = "]" THEN j + 1
        ELSE IF At(s, j) = "," THEN JArray(s, JSkip(s, j + 1))
        ELSE 0

\* JSONObject from the first key at i
JObject(s, i) ==
    LET k == IF At(s, i) = "\"" THEN JString(s, i + 1) ELSE 0
        c == JSkip(s, k)
        v == IF k # 0 /\ At(s, c) = ":" THEN JValue(s, JSkip(s, c + 1)) ELSE 0
        j == JSkip(s, v)
    IN  IF v = 0 THEN 0
        ELSE IF At(s, j) = "}" THEN j + 1
        ELSE IF At(s, j) = "," THEN JObject(s, JSkip(s, j + 1))
        ELSE 0

\* json.loads(s) returns instead of raising
JsonLoads(s) ==
    LET v == JValue(s, JSkip(s, 1))
    IN  v # 0 /\ JSkip(s, v) = Len(s) + 1

\* ---- the rules of detect_extension, in the order of the code
StartsLit(s, lit) == LitAt(s, 1, lit)

\* s.startswith("{") and s.endswith("}"), or the same with "[" and "]"
Bracketed(s) ==
    \/ StartsWith(s, <<"{">>) /\ EndsWith(s, <<"}">>)
    \/ StartsWith(s, <<"[">>) /\ EndsWith(s, <<"]">>)

IsJson(s) == Bracketed(s) /\ JsonLoads(s)

LIT_xmldecl == <<"<", "?", "x", "m", "l">>

\* re.match(r"^<[a-zA-Z][\s\S]*>[\s\S]*</[a-zA-Z]", s)
XmlShape(s) ==
    /\ At(s, 1) = "<"
    /\ IsAlpha(At(s, 2))
    /\ \E j \in 3..Len(s) :
          /\ s[j] = ">"
          /\ \E k \in (j + 1)..Len(s) :
                s[k] = "<" /\ At(s, k + 1) = "/" /\ IsAlpha(At(s, k + 2))

IsXml(s) == StartsLit(s, LIT_xmldecl) \/ XmlShape(s)

LIT_doctype == <<"<", "!", "d", "o", "c", "t", "y", "p", "e", " ", "h", "t", "m", "l">>
LIT_html == <<"<", "h", "t", "m", "l">>

\* re.match(r"(?i)^<!doctype html|^<html", s)
IsHtml(s) == LitAtI(s, 1, LIT_doctype) \/ LitAtI(s, 1, LIT_html)

\* s.split("\n")
RECURSIVE SplitLines(_)
SplitLines(s) ==
    IF \E i \in 1..Len(s) : s[i] = "\n"
    THEN LET i == CHOOSE k \in 1..Len(s) :
                      s[k] = "\n" /\ \A m \in 1..(k - 1) : s[m] # "\n"
         IN  <<SubSeq(s, 1, i - 1)>> \o SplitLines(SubSeq(s, i + 1, Len(s)))
    ELSE <<s>>

\* line.count(c)
Count(line, c) == Cardinality({i \in 1..Len(line) : line[i] = c})

MaxSniffLines == 10

\* lines = s.split("\n")[:10]
SniffLines(s) ==
    LET all == SplitLines(s) IN SubSeq(all, 1, Min(Len(all), MaxSniffLines))

\* the delimiter counts of the lines with line.strip() non-empty are all
\* equal to the first and at least 2
Tabular(s, c) ==
    LET lines == SniffLines(s)
        idx == {i \in 1..Len(lines) : Strip(lines[i]) # <<>>}
    IN  /\ Len(lines) >= 2
        /\ idx # {}
        /\ LET first == Count(lines[CHOOSE i \in idx : \A k \in idx : i <= k], c)
           IN  \A i \in idx : Count(lines[i], c) = first /\ first >= 2

IsCsv(s) == Tabular(s, ",")
IsTsv(s) == Tabular(s, "\t")

LogLevels ==
    {<<"D", "E", "B", "U", "G">>,
     <<"I", "N", "F", "O">>,
     <<"W", "A", "R", "N">>,
     <<"E", "R", "R", "O", "R">>,
     <<"F", "A", "T", "A", "L">>,
     <<"T", "R", "A", "C", "E">>}

\* \d{4}[-/]\d{2}[-/]\d{2} at position i
DateAt(s, i) ==
    /\ \A k \in {0, 1, 2, 3, 5, 6, 8, 9} : IsDigit(At(s, i + k))
    /\ At(s, i + 4) \in {"-", "/"}
    /\ At(s, i + 7) \in {"-", "/"}

\* \d{2}:\d{2}:\d{2} at position i
TimeAt(s, i) ==
    /\ \A k \in {0, 1, 3, 4, 6, 7} : IsDigit(At(s, i + k))
    /\ At(s, i + 2) = ":"
    /\ At(s, i + 5) = ":"

\* (DEBUG|INFO|WARN|ERROR|FATAL|TRACE)[\s:\|] at position i
LevelAt(s, i) ==
    \E w \in LogLevels :
        LitAt(s, i, w) /\ (IsSpace(At(s, i + Len(w))) \/ At(s, i + Len(w)) \in {":", "|"})

MinLogMatches == 3

\* len(log_pattern.findall(s)): the pattern is anchored by ^ under
\* re.MULTILINE, so it matches once at each line start it fits
LogMatches(s) ==
    Cardinality({i \in 1..Len(s) :
                    LineStart(s, i) /\ (DateAt(s, i) \/ TimeAt(s, i) \/ LevelAt(s, i))})

IsLog(s) == LogMatches(s) >= MinLogMatches

SqlKeywords ==
    {<<"s", "e", "l", "e", "c", "t">>,
     <<"i", "n", "s", "e", "r", "t">>,
     <<"u", "p", "d", "a", "t", "e">>,
     <<"d", "e", "l", "e", "t", "e">>,
     <<"c", "r", "e", "a", "t", "e">>,
     <<"a", "l", "t", "e", "r">>,
     <<"d", "r", "o", "p">>,
     <<"w", "i", "t", "h">>}

\* \b after a keyword that ends at position i - 1
WordBoundary(s, i) == ~IsWord(At(s, i))

\* sql_keywords.search(s): ^\s*(KEYWORD)\b, IGNORECASE | MULTILINE
IsSql(s) ==
    \E i \in 1..Len(s) : \E k \in i..Len(s) :
        /\ LineStart(s, i)
        /\ \A m \in i..(k - 1) : IsSpace(s[m])
        /\ \E w \in SqlKeywords : LitAtI(s, k, w) /\ WordBoundary(s, k + Len(w))

\* $ under re.MULTILINE: position i is the end of the text or holds "\n"
LineEnd(s, i) == i = Len(s) + 1 \/ At(s, i) = "\n"

\* re.match(r"^---\s*$", s, re.MULTILINE)
YamlMarker(s) ==
    /\ StartsLit(s, <<"-", "-", "-">>)
    /\ \E e \in 4..(Len(s) + 1) :
          (\A m \in 4..(e - 1) : IsSpace(s[m])) /\ LineEnd(s, e)

\* the first position at or after i that holds no word character
RECURSIVE WordEnd(_, _)
WordEnd(s, i) == IF IsWord(At(s, i)) THEN WordEnd(s, i + 1) ELSE i

\* re.match(r"^[a-zA-Z_][\w]*:\s", s)
YamlKey(s) ==
    /\ IsAlpha(At(s, 1)) \/ At(s, 1) = "_"
    /\ LET e == WordEnd(s, 2) IN At(s, e) = ":" /\ IsSpace(At(s, e + 1))

IsYaml(s) == YamlMarker(s) \/ YamlKey(s)

MaxHashes == 6

\* #{1,6}\s at position i
HeadingAt(s, i) ==
    \E n \in 1..MaxHashes :
        (\A k \in 0..(n - 1) : At(s, i + k) = "#") /\ IsSpace(At(s, i + n))

\* re.match(r"^#{1,6}\s", s) or re.search(r"\n#{1,6}\s", s)
IsMarkdown(s) ==
    HeadingAt(s, 1) \/ \E i \in 1..Len(s) : s[i] = "\n" /\ HeadingAt(s, i + 1)

PyPrefixes ==
    {<<"i", "m", "p", "o", "r", "t", " ">>,
     <<"f", "r", "o", "m", " ">>,
     <<"d", "e", "f", " ">>,
     <<"c", "l", "a", "s", "s", " ">>}
LIT_shebang == <<"#", "!">>
LIT_python == <<"p", "y", "t", "h", "o", "n">>

\* #!.*python at the start: "python" on the first line, after the "#!"
Shebang(s) ==
    /\ StartsLit(s, LIT_shebang)
    /\ \E i \in 3..Len(s) :
          LitAt(s, i, LIT_python) /\ \A m \in 3..(i - 1) : s[m] # "\n"

\* re.match(r"^(import |from |def |class |#!.*python)", s, re.MULTILINE)
IsPython(s) == (\E w \in PyPrefixes : StartsLit(s, w)) \/ Shebang(s)

JsPrefixes ==
    {<<"c", "o", "n", "s", "t", " ">>,
     <<"l", "e", "t", " ">>,
     <<"v", "a", "r", " ">>,
     <<"f", "u", "n", "c", "t", "i", "o", "n", " ">>,
     <<"i", "m", "p", "o", "r", "t", " ">>,
     <<"e", "x", "p", "o", "r", "t", " ">>}

\* re.match(r"^(const |let |var |function |import |export )", s, re.MULTILINE)
IsJavaScript(s) == \E w \in JsPrefixes : StartsLit(s, w)

\* fault injection: no return at the end, None for a text no rule matches
detect_extension_NoFallback(text) ==
    LET s == Strip(text)
    IN  IF s = <<>> THEN ".txt"
        ELSE IF IsJson(s) THEN ".json"
        ELSE IF IsXml(s) THEN ".xml"
        ELSE IF IsHtml(s) THEN ".html"
        ELSE IF IsCsv(s) THEN ".csv"
        ELSE IF IsTsv(s) THEN ".tsv"
        ELSE IF IsLog(s) THEN ".log"
        ELSE IF IsSql(s) THEN ".sql"
        ELSE IF IsYaml(s) THEN ".yaml"
        ELSE IF IsMarkdown(s) THEN ".md"
        ELSE IF IsPython(s) THEN ".py"
        ELSE IF IsJavaScript(s) THEN ".js"
        ELSE "None"

detect_extension_JsonShortCircuit(text) ==
    LET s == Strip(text)
    IN  IF s = <<>> THEN ".txt"
        ELSE IF Bracketed(s) THEN (IF JsonLoads(s) THEN ".json" ELSE ".txt")
        ELSE IF IsXml(s) THEN ".xml"
        ELSE IF IsHtml(s) THEN ".html"
        ELSE IF IsCsv(s) THEN ".csv"
        ELSE IF IsTsv(s) THEN ".tsv"
        ELSE IF IsLog(s) THEN ".log"
        ELSE IF IsSql(s) THEN ".sql"
        ELSE IF IsYaml(s) THEN ".yaml"
        ELSE IF IsMarkdown(s) THEN ".md"
        ELSE IF IsPython(s) THEN ".py"
        ELSE IF IsJavaScript(s) THEN ".js"
        ELSE ".txt"

detect_extension(text) ==
    LET s == Strip(text)
    IN  IF s = <<>> THEN ".txt"
        ELSE IF IsJson(s) THEN ".json"
        ELSE IF IsXml(s) THEN ".xml"
        ELSE IF IsHtml(s) THEN ".html"
        ELSE IF IsCsv(s) THEN ".csv"
        ELSE IF IsTsv(s) THEN ".tsv"
        ELSE IF IsLog(s) THEN ".log"
        ELSE IF IsSql(s) THEN ".sql"
        ELSE IF IsYaml(s) THEN ".yaml"
        ELSE IF IsMarkdown(s) THEN ".md"
        ELSE IF IsPython(s) THEN ".py"
        ELSE IF IsJavaScript(s) THEN ".js"
        ELSE ".txt"

(***************************************************************************)
(* The inputs of the model.                                                *)
(***************************************************************************)
\* the texts an edit may leave in a buffer (a new buffer is empty)
Contents == {<<" ">>, <<"\n", "a">>}

\* ~/scratchbook as the user may write it in the settings file
Root == <<"/", "scratchbook">>
ScratchbookFolders == {Root, Root \o <<"/">>}

\* user files outside the scratchbook: one in a sibling folder whose name
\* starts with the name of the scratchbook folder, one elsewhere
SiblingFile == <<"/", "scratchbook", "2", "/", "notes.txt">>
OtherFile == <<"/", "home", "/", "notes.txt">>
ExternalFiles == {SiblingFile, OtherFile}

\* the I/O call the filesystem refuses during one handler run, if any
IOStates == {"ok", "makedirs", "open", "write"}

SettingsSet ==
    [scratchbook_folder : ScratchbookFolders,
     auto_save_on_close : {TRUE},
     auto_save_on_focus_lost : {TRUE},
     auto_detect_extension : {TRUE},
     default_extension : {".txt"},
     min_content_length : 0..MaxMinLen,
     organize_by_date : BOOLEAN]

(***************************************************************************)
(* A handler runs on a record w of everything it may read or change: the   *)
(* filesystem, the views, and what it has done so far (the files it wrote, *)
(* the messages it showed, the paths it generated, the results of its      *)
(* save_scratch_buffer calls, whether an exception is in flight).          *)
(***************************************************************************)
\* io: the I/O call the filesystem refuses while the handler runs
World(io) ==
    [fs |-> fs, mtime |-> mtime, dirs |-> dirs, panel |-> <<>>,
     content |-> content, file_name |-> file_name,
     scratch |-> scratch, status |-> status,
     pending_saves |-> pending_saves, timeouts |-> timeouts, io |-> io,
     writes |-> {}, notif |-> {}, gen |-> <<>>, rets |-> <<>>, wfail |-> {},
     exc |-> FALSE, raised |-> FALSE, closed |-> 0]

\* sublime.status_message: a transient, non-blocking text
status_message(w) == [w EXCEPT !.notif = @ \cup {"status"}]

\* sublime.error_message: a blocking error dialog
error_message(w) == [w EXCEPT !.notif = @ \cup {"error"}]

\* an except clause takes the exception in flight
Caught(w) == [w EXCEPT !.exc = FALSE]

\* a return value of save_scratch_buffer(view), NoFile for None
Return(w, v, path) == [w EXCEPT !.rets = Append(@, <<v, path>>)]

\* a disk on which no path is found
Exists_Never(w, path) == FALSE

\* os.path.exists
Exists(w, path) == NormPath(path) \in DOMAIN w.fs \/ NormPath(path) \in w.dirs

\* the file at path with its text replaced
Store(files, path, text) ==
    [q \in DOMAIN files \cup {path} |-> IF q = path THEN text ELSE files[q]]

\* fault injection: the file gets the stripped text of the length check
WriteFile_Stripped(w, v, path, text) ==
    IF w.io = "open"
    THEN [w EXCEPT !.exc = TRUE, !.wfail = @ \cup {v}]
    ELSE IF w.io = "write"
    THEN [w EXCEPT !.fs = Store(@, NormPath(path), <<>>),
                   !.mtime = Store(@, NormPath(path), now),
                   !.writes = @ \cup {<<v, path>>},
                   !.exc = TRUE, !.wfail = @ \cup {v}]
    ELSE [w EXCEPT !.fs = Store(@, NormPath(path), WriteText(Strip(text), linesep)),
                   !.mtime = Store(@, NormPath(path), now),
                   !.writes = @ \cup {<<v, path>>}]

\* with open(path, "w", encoding="utf-8") as f: f.write(text), for view v.
\* open() truncates; a write that fails leaves the file empty.
WriteFile(w, v, path, text) ==
    IF w.io = "open"
    THEN [w EXCEPT !.exc = TRUE, !.wfail = @ \cup {v}]
    ELSE IF w.io = "write"
    THEN [w EXCEPT !.fs = Store(@, NormPath(path), <<>>),
                   !.mtime = Store(@, NormPath(path), now),
                   !.writes = @ \cup {<<v, path>>},
                   !.exc = TRUE, !.wfail = @ \cup {v}]
    ELSE [w EXCEPT !.fs = Store(@, NormPath(path), WriteText(text, linesep)),
                   !.mtime = Store(@, NormPath(path), now),
                   !.writes = @ \cup {<<v, path>>}]

\* os.makedirs(path, exist_ok=True): refused only where a directory is missing
ensure_folder(w, path) ==
    IF w.io = "makedirs" /\ NormPath(path) \notin w.dirs
    THEN [w EXCEPT !.raised = TRUE]
    ELSE [w EXCEPT !.dirs = @ \cup Ancestors(path)]

\* now.strftime(settings["filename_format"]), the clock in seconds
BaseName(t) == <<"scratch_">> \o ToStr(t)

\* now.strftime("%Y/%m"): every clock value of the model is in one month
YearMonth(t) == <<"%Y", "/", "%m">>

\* fault injection: no uniqueness loop
Probe_NoLoop(w, folder, base_name, ext, counter, filepath) == filepath

\* the uniqueness loop of generate_filename
RECURSIVE Probe(_, _, _, _, _, _)
Probe(w, folder, base_name, ext, counter, filepath) ==
    IF Exists(w, filepath)
    THEN Probe(w, folder, base_name, ext, counter + 1,
               Join(folder, base_name \o <<"_">> \o ToStr(counter) \o <<ext>>))
    ELSE filepath

\* the extension generate_filename gives a file of this text
Extension(text) ==
    IF settings.auto_detect_extension
    THEN detect_extension(text)
    ELSE settings.default_extension

\* the folder generate_filename puts the file in
Folder ==
    IF settings.organize_by_date
    THEN Join(settings.scratchbook_folder, YearMonth(now))
    ELSE settings.scratchbook_folder

\* the end of generate_filename: the unused path found
Generated(w, filepath, text) ==
    [w |-> [w EXCEPT !.gen = Append(@, [path |-> filepath, text |-> text, now |-> now])],
     filepath |-> filepath]

\* generate_filename after ensure_folder(folder), which may have raised
GenerateIn(w, folder, base_name, ext, text) ==
    IF w.raised
    THEN [w |-> w, filepath |-> NoFile]
    ELSE Generated(w, Probe(w, folder, base_name, ext, 1,
                            Join(folder, base_name \o <<ext>>)), text)

\* generate_filename(content, settings): the world after it and its result
generate_filename(w, text) ==
    GenerateIn(ensure_folder(w, Folder), Folder, BaseName(now), Extension(text), text)

retarget(w, v, path) == [w EXCEPT !.file_name[v] = path]
set_scratch(w, v) == [w EXCEPT !.scratch[v] = TRUE]

\* fault injection: the view is not retargeted to the new file
FirstSaveWritten_NoRetarget(w, v, filepath) ==
    IF w.exc THEN Return(error_message(Caught(w)), v, NoFile)
    ELSE Return(status_message(set_scratch(w, v)), v, filepath)

\* the first save after the write to the new file
FirstSaveWritten(w, v, filepath) ==
    IF w.exc THEN Return(error_message(Caught(w)), v, NoFile)
    ELSE Return(status_message(set_scratch(retarget(w, v, filepath), v)), v, filepath)

\* the first save after generate_filename, which may have raised
FirstSaveAt(g, v, text) ==
    IF g.w.raised THEN g.w
    ELSE FirstSaveWritten(WriteFile(g.w, v, g.filepath, text), v, g.filepath)

\* the first save of save_scratch_buffer: a new file, and the view linked to it
FirstSave(w, v, text) == FirstSaveAt(generate_filename(w, text), v, text)

\* the update in place after the write to the linked file
Updated(w, v, path) ==
    IF w.exc THEN Return(error_message(Caught(w)), v, NoFile)
    ELSE Return(status_message(w), v, path)

\* fault injection: a linked view is saved to a new file again
UpdateInPlace_NewFile(w, v, text) == FirstSave(w, v, text)

\* the update in place of save_scratch_buffer
UpdateInPlace(w, v, text) ==
    Updated(WriteFile(w, v, w.file_name[v], text), v, w.file_name[v])

\* fault injection: no check of the content length
save_scratch_buffer_AnyLength(w, v) ==
    IF w.file_name[v] # NoFile
          /\ IsUnder(w.file_name[v], NormPath(settings.scratchbook_folder))
    THEN UpdateInPlace(w, v, w.content[v])
    ELSE IF w.file_name[v] # NoFile THEN Return(w, v, NoFile)
    ELSE FirstSave(w, v, w.content[v])

save_scratch_buffer(w, v) ==
    LET text == w.content[v]
        existing_file == w.file_name[v]
        scratchbook_folder == NormPath(settings.scratchbook_folder)
    IN  IF Len(Strip(text)) < settings.min_content_length THEN Return(w, v, NoFile)
        ELSE IF existing_file # NoFile /\ IsUnder(existing_file, scratchbook_folder)
        THEN UpdateInPlace(w, v, text)
        ELSE IF existing_file # NoFile THEN Return(w, v, NoFile)
        ELSE FirstSave(w, v, text)

\* ScratchBookListener._is_scratchbook_file
is_scratchbook_file(w, v) ==
    /\ w.file_name[v] # NoFile
    /\ IsUnder(w.file_name[v], NormPath(settings.scratchbook_folder))

\* _save_scratchbook_file after the write to the file of the view
DirectSaved(w, v) ==
    IF w.exc THEN status_message(Caught(w))
    ELSE IF w.status[v] = "open" THEN set_scratch(w, v)
    ELSE w

\* ScratchBookListener._save_scratchbook_file
save_scratchbook_file(w, v) ==
    IF w.file_name[v] = NoFile THEN w
    ELSE DirectSaved(WriteFile(w, v, w.file_name[v], w.content[v]), v)

\* the body shared by on_pre_close and on_deactivated
AutoSave(w, v) ==
    IF w.file_name[v] = NoFile THEN save_scratch_buffer(w, v)
    ELSE IF is_scratchbook_file(w, v) THEN save_scratchbook_file(w, v)
    ELSE w

on_pre_close(w, v) == IF settings.auto_save_on_close THEN AutoSave(w, v) ELSE w

on_deactivated(w, v) ==
    IF settings.auto_save_on_focus_lost THEN AutoSave(w, v) ELSE w

\* ScratchBookListener.on_modified: one more callback for sublime.set_timeout
on_modified(w, v) ==
    IF is_scratchbook_file(w, v)
    THEN [w EXCEPT !.pending_saves = @ \cup {v}, !.timeouts = Append(@, v)]
    ELSE w

\* fault injection: the callback clears the marker and writes nothing
do_save_ClearOnly(w, v) == [w EXCEPT !.pending_saves = @ \ {v}]

\* do_save, the callback of on_modified for view v
do_save_PopIfValid(w, v) ==
    IF w.status[v] = "open" /\ is_scratchbook_file(w, v)
    THEN [save_scratchbook_file(w, v) EXCEPT !.pending_saves = @ \ {v}]
    ELSE w

do_save(w, v) ==
    [(IF w.status[v] = "open" /\ is_scratchbook_file(w, v)
      THEN save_scratchbook_file(w, v)
      ELSE w) EXCEPT !.pending_saves = @ \ {v}]

\* fault injection: closing a view removes the file it is linked to
Gone_RemovesFile(w, v) ==
    [w EXCEPT !.status[v] = "closed", !.content[v] = <<>>,
              !.file_name[v] = NoFile, !.scratch[v] = FALSE,
              !.fs = [q \in DOMAIN @ \ {NormPath(w.file_name[v])} |-> @[q]],
              !.mtime = [q \in DOMAIN @ \ {NormPath(w.file_name[v])} |-> @[q]]]

\* a closed view: is_valid() is false and nothing reads the rest of it
Gone(w, v) ==
    [w EXCEPT !.status[v] = "closed", !.content[v] = <<>>,
              !.file_name[v] = NoFile, !.scratch[v] = FALSE]

\* view.close(): the editor calls the on_pre_close listeners (an exception of
\* a listener stays with the editor), then the view is gone
view_close(w, v) == [Gone(on_pre_close(w, v), v) EXCEPT !.raised = w.raised]

RECURSIVE CloseAllFrom(_, _)

\* one turn of the loop after save_scratch_buffer(view), which may have raised:
\* set_scratch, close, count, and on to the next view
CloseOne(w, v) ==
    IF w.raised THEN w
    ELSE CloseAllFrom([view_close(set_scratch(w, v), v) EXCEPT !.closed = @ + 1], v + 1)

\* the loop of ScratchBookCloseAllCommand.run from view v on, in window order
CloseAllFrom(w, v) ==
    IF v > NumViews THEN status_message(w)
    ELSE IF w.status[v] = "open" /\ (w.file_name[v] = NoFile \/ is_scratchbook_file(w, v))
    THEN CloseOne(save_scratch_buffer(w, v), v)
    ELSE CloseAllFrom(w, v + 1)

\* ScratchBookSaveCommand.run after save_scratch_buffer, which may have raised
SaveReported(w) == IF w.raised THEN w ELSE status_message(w)

\* ScratchBookSaveCommand.run
save_command(w, v) == SaveReported(save_scratch_buffer(w, v))

(***************************************************************************)
(* The state machine.                                                      *)
(***************************************************************************)
\* what a handler leaves behind (the guard caps the files a run may create);
\* the quick panel is dismissed when the editor runs another handler
Commit(w) ==
    /\ Cardinality(DOMAIN w.fs) <= Cardinality(ExternalFiles) + MaxNewFiles
    /\ Len(w.timeouts) <= MaxTimeouts
    /\ fs' = w.fs
    /\ mtime' = w.mtime
    /\ dirs' = w.dirs
    /\ panel' = w.panel
    /\ content' = w.content
    /\ file_name' = w.file_name
    /\ scratch' = w.scratch
    /\ status' = w.status
    /\ pending_saves' = w.pending_saves
    /\ timeouts' = w.timeouts
    /\ UNCHANGED <<settings, linesep, now>>

\* the editor starts with no view, the user's settings S, the platform's
\* line separator one of L
Start(S, L) ==
    /\ settings \in S
    /\ linesep \in L
    /\ now \in 0..MaxClock
    /\ status = [v \in Views |-> "none"]
    /\ content = [v \in Views |-> <<>>]
    /\ file_name = [v \in Views |-> NoFile]
    /\ scratch = [v \in Views |-> FALSE]
    /\ fs = [p \in ExternalFiles |-> <<"a">>]
    /\ mtime = [p \in ExternalFiles |-> 0]
    /\ panel = <<>>
    /\ dirs = {<<"/", "scratchbook", "2">>, <<"/", "home">>}
    /\ pending_saves = {}
    /\ timeouts = <<>>

\* views are created in the order of their identifiers, which is the order
\* of window.views()
NextView(v) == status[v] = "none" /\ \A u \in Views : u < v => status[u] # "none"

\* ScratchBookNewCommand.run: a new untitled view, marked scratch
NewScratch(v) ==
    /\ NextView(v)
    /\ Commit(status_message([World("ok") EXCEPT !.status[v] = "open",
                                                 !.scratch[v] = TRUE]))

\* the editor's own File > New: a new untitled view
HostNewFile(v) ==
    /\ NextView(v)
    /\ Commit([World("ok") EXCEPT !.status[v] = "open"])

\* the editor opens a user file that lies outside the scratchbook
HostOpenFile(v, p) ==
    /\ NextView(v)
    /\ Commit([World("ok") EXCEPT !.status[v] = "open", !.file_name[v] = p,
                                  !.content[v] = fs[p]])

\* the editor's own Save As on a view of a scratchbook file: the text goes
\* to a user file outside the scratchbook and the view is bound to it
HostSaveAs(v, p) ==
    /\ status[v] = "open"
    /\ is_scratchbook_file(World("ok"), v)
    /\ file_name[v] # p
    /\ Commit([World("ok") EXCEPT !.file_name[v] = p,
                                  !.fs = Store(@, p, WriteText(content[v], linesep)),
                                  !.mtime = Store(@, p, now)])

\* the text of v becomes text, and the editor calls on_modified
Modify(v, text) == on_modified([World("ok") EXCEPT !.content[v] = text], v)

\* the editor changes the text of v
Edit(v, text) ==
    /\ status[v] = "open"
    /\ text # content[v]
    /\ Commit(Modify(v, text))

\* the editor takes the oldest callback off its queue and calls it
Fire(io) == do_save([World(io) EXCEPT !.timeouts = Tail(@)], Head(timeouts))

\* the oldest timeout fires: do_save
DoSave(io) ==
    /\ timeouts # <<>>
    /\ Commit(Fire(io))

\* the view loses the focus: ScratchBookListener.on_deactivated
OnDeactivated(v, io) ==
    /\ status[v] = "open"
    /\ Commit(on_deactivated(World(io), v))

\* the user closes the view: ScratchBookListener.on_pre_close, then it is gone
Close(v, io) ==
    /\ status[v] = "open"
    /\ Commit(Gone(on_pre_close(World(io), v), v))

\* ScratchBookSaveCommand.run on view v
SaveCommand(v, io) ==
    /\ status[v] = "open"
    /\ Commit(save_command(World(io), v))

\* ScratchBookCloseAllCommand.run on the window
CloseAll(io) ==
    /\ \E v \in Views : status[v] = "open"
    /\ Commit(CloseAllFrom(World(io), 1))

\* the life of scratch buffers, the filesystem refusing what IO allows
Lifecycle(IO) ==
    \/ \E v \in Views : NewScratch(v)
    \/ \E v \in Views : HostNewFile(v)
    \/ \E v \in Views : \E text \in Contents : Edit(v, text)
    \/ \E x \in IO : DoSave(x)
    \/ \E v \in Views : \E x \in IO : OnDeactivated(v, x)
    \/ \E v \in Views : \E x \in IO : Close(v, x)
    \/ \E v \in Views : \E x \in IO : SaveCommand(v, x)
    \/ \E x \in IO : CloseAll(x)

\* user files outside the scratchbook in the editor
External ==
    \/ \E v \in Views : \E p \in ExternalFiles : HostOpenFile(v, p)
    \/ \E v \in Views : \E p \in ExternalFiles : HostSaveAs(v, p)

\* no I/O call is refused, and no user file is in the editor
Init == Start(SettingsSet, {LF, CRLF})

Next == Lifecycle({"ok"})

Spec == Init /\ [][Next]_vars

\* the filesystem may refuse any I/O call
InitFail == Start({s \in SettingsSet : s.min_content_length > 0}, {LF})

NextFail == Lifecycle(IOStates)

SpecFail == InitFail /\ [][NextFail]_vars

\* with user files in the editor
InitExternal ==
    Start({s \in SettingsSet : s.min_content_length > 0 /\ ~s.organize_by_date}, {LF})

NextExternal == Lifecycle({"ok"}) \/ External

SpecExternal == InitExternal /\ [][NextExternal]_vars

(***************************************************************************)
(* The vocabulary of the specification (spec.md, 4.2 and glossary).        *)
(***************************************************************************)
\* the resolved scratchbook root
RootPath == NormPath(settings.scratchbook_folder)

OpenViews == {v \in Views : status[v] = "open"}

\* the three binding states of an open buffer
Unbound(v) == status[v] = "open" /\ file_name[v] = NoFile
BoundScratch(v) ==
    status[v] = "open" /\ file_name[v] # NoFile /\ Contained(file_name[v], RootPath)
BoundExternal(v) ==
    status[v] = "open" /\ file_name[v] # NoFile /\ ~Contained(file_name[v], RootPath)

\* the callbacks still scheduled for v
Scheduled(v) == {i \in DOMAIN timeouts : timeouts[i] = v}

\* the worlds the handlers leave when the editor runs them in the current
\* state: the background auto-saves, the user's commands, an edit
Background(io) ==
    {on_pre_close(World(io), v) : v \in OpenViews}
        \cup {on_deactivated(World(io), v) : v \in OpenViews}
        \cup (IF timeouts = <<>> THEN {} ELSE {Fire(io)})
Commands(io) ==
    {save_command(World(io), v) : v \in OpenViews}
        \cup (IF OpenViews = {} THEN {} ELSE {CloseAllFrom(World(io), 1)})
Edits == {Modify(v, text) : v \in OpenViews, text \in Contents}
Events(io) == Background(io) \cup Commands(io) \cup Edits

\* the paths a handler run wrote for view v
WrittenFor(w, v) == {x[2] : x \in {y \in w.writes : y[1] = v}}

\* a save_scratch_buffer call that returned a path
Succeeded(w) == w.rets # <<>> /\ w.rets[1][2] # NoFile

\* the world of a run, as the next handler run finds it
Again(w) == [w EXCEPT !.writes = {}, !.notif = {}, !.gen = <<>>, !.rets = <<>>]

(***************************************************************************)
(* C1                                                                      *)
(***************************************************************************)
\* C1: whatever event the editor delivers, a buffer whose file lies outside
\* the scratchbook root (a sibling folder /scratchbook2 included) has its
\* file not written and is not retargeted.
C1_ExternalNeverTouched ==
    \A v \in Views : BoundExternal(v) =>
        \A w \in Events("ok") :
            /\ \A x \in w.writes : NormPath(x[2]) # NormPath(file_name[v])
            /\ w.status[v] = "open" => w.file_name[v] = file_name[v]

(***************************************************************************)
(* C2                                                                      *)
(***************************************************************************)
\* C2: for a Bound-Scratch buffer at path p every event, whether or not the
\* filesystem refuses a call, writes for that buffer only to p, leaves the
\* buffer bound to p while it is open, and generates no new file name.
C2_BoundPathStable ==
    \A v \in Views : BoundScratch(v) =>
        \A io \in IOStates : \A w \in Events(io) :
            /\ WrittenFor(w, v) \subseteq {file_name[v]}
            /\ w.status[v] = "open" => w.file_name[v] = file_name[v]
            /\ (\A u \in OpenViews : ~Unbound(u)) => w.gen = <<>>

\* a Bound-Scratch buffer whose file holds a text no first save writes
\* (shorter than min_content_length): a later save wrote it, at the same path
C2_Witness ==
    \E v \in Views :
        /\ BoundScratch(v)
        /\ settings.min_content_length > 0
        /\ content[v] = <<" ">>
        /\ fs[NormPath(file_name[v])] = <<" ">>
        /\ <<v, file_name[v]>> \in on_deactivated(World("ok"), v).writes

(***************************************************************************)
(* C3                                                                      *)
(***************************************************************************)
\* the k-th candidate of the uniqueness loop: base, base_1, base_2, ...
Candidate(k, ext) ==
    IF k = 0 THEN Join(Folder, BaseName(now) \o <<ext>>)
    ELSE Join(Folder, BaseName(now) \o <<"_">> \o ToStr(k) \o <<ext>>)

\* C3 as stated: the file names generated in one run of a handler with the
\* same clock value, the same content and the same folder are pairwise
\* distinct.
C3_NamesDistinct ==
    \A io \in IOStates : \A w \in Events(io) :
        \A i, j \in DOMAIN w.gen :
            (i # j /\ w.gen[i].text = w.gen[j].text /\ w.gen[i].now = w.gen[j].now)
                => w.gen[i].path # w.gen[j].path

\* C3 amended: a generated name is the first candidate base, base_1, ... that
\* does not exist when it is generated; so when each generated file is
\* created before the next name is generated, the names are pairwise
\* distinct and none is the name of a file that existed before.
C3_NamesDistinctWhenCreated ==
    \A w \in Events("ok") :
        /\ \A i, j \in DOMAIN w.gen : i # j => w.gen[i].path # w.gen[j].path
        /\ \A i \in DOMAIN w.gen :
            /\ NormPath(w.gen[i].path) \notin DOMAIN fs
            /\ \E k \in 0..Cardinality(DOMAIN w.fs) :
                /\ w.gen[i].path = Candidate(k, Extension(w.gen[i].text))
                /\ \A m \in 0..(k - 1) :
                    NormPath(Candidate(m, Extension(w.gen[i].text))) \in DOMAIN w.fs

\* close-all saves two Unbound buffers of the same content in one run
C3_Witness ==
    /\ \E u, v \in Views : u # v /\ Unbound(u) /\ Unbound(v) /\ content[u] = content[v]
    /\ Len(CloseAllFrom(World("ok"), 1).gen) >= 2

(***************************************************************************)
(* C4                                                                      *)
(***************************************************************************)
\* C4 as stated: after a successful save of an Unbound buffer the file at
\* the returned path holds exactly the content of the buffer.
C4_RoundTrip ==
    \A v \in Views : Unbound(v) =>
        LET w == save_scratch_buffer(World("ok"), v)
        IN  Succeeded(w) => w.fs[NormPath(w.rets[1][2])] = content[v]

\* C4 amended: after a successful save of an Unbound buffer the file at the
\* returned path holds the full (unstripped) content of the buffer, each
\* line feed written as the line separator of the platform; where that
\* separator is the line feed, the file is identical to the content.
C4_RoundTripTextMode ==
    \A v \in Views : Unbound(v) =>
        LET w == save_scratch_buffer(World("ok"), v)
        IN  Succeeded(w) =>
                /\ w.fs[NormPath(w.rets[1][2])] = WriteText(content[v], linesep)
                /\ linesep = LF => w.fs[NormPath(w.rets[1][2])] = content[v]

\* an Unbound buffer whose content differs from its stripped content is
\* saved
C4_Witness ==
    \E v \in Views :
        /\ Unbound(v)
        /\ Strip(content[v]) # content[v]
        /\ Succeeded(save_scratch_buffer(World("ok"), v))

(***************************************************************************)
(* C5                                                                      *)
(***************************************************************************)
\* C5: saving an Unbound buffer whose stripped content is shorter than
\* min_content_length returns None, creates no file and no directory, and
\* leaves the buffer Unbound and every scratch flag as it was; so do the
\* auto-saves on close and on focus loss.
C5_ShortSaveIsNoOp ==
    \A v \in Views :
        (Unbound(v) /\ Len(Strip(content[v])) < settings.min_content_length) =>
            \A io \in IOStates :
                \A w \in {save_scratch_buffer(World(io), v),
                          on_pre_close(World(io), v), on_deactivated(World(io), v)} :
                    /\ w.rets = <<<<v, NoFile>>>>
                    /\ w.fs = fs /\ w.dirs = dirs
                    /\ w.file_name = file_name /\ w.scratch = scratch
                    /\ w.writes = {} /\ w.gen = <<>> /\ ~w.raised

\* an Unbound buffer of whitespace only, with min_content_length >= 1
C5_Witness ==
    \E v \in Views :
        /\ Unbound(v)
        /\ content[v] = <<" ">>
        /\ settings.min_content_length >= 1
        /\ save_scratch_buffer(World("ok"), v).rets = <<<<v, NoFile>>>>

(***************************************************************************)
(* C6                                                                      *)
(***************************************************************************)
\* the texts a buffer may hold at its next save
NextTexts(v) == {content[v]} \cup Contents

C7_FailsSilently ==
    \A v \in Views : Unbound(v) =>
        \A io \in IOStates :
            LET w == save_scratch_buffer(World(io), v)
            IN  /\ ~w.raised
                /\ (v \in w.wfail \/ w.raised) =>
                    /\ w.rets = <<<<v, NoFile>>>>
                    /\ w.file_name[v] = NoFile
                    /\ w.scratch[v] = scratch[v]

(***************************************************************************)
(* C8                                                                      *)
(***************************************************************************)
\* C8: a background auto-save (on close, on focus loss, a deferred save
\* that fires) shows no blocking error dialog, whichever I/O call the
\* filesystem refuses.
C8_BackgroundNeverBlocks ==
    \A io \in IOStates : \A w \in Background(io) : "error" \notin w.notif

(***************************************************************************)
(* C9                                                                      *)
(***************************************************************************)
\* C9: a deferred save that fires writes only if its buffer is open and
\* Bound-Scratch at that moment, and then only the file of that buffer;
\* the pending-save marker of the buffer is gone when it returns, also when
\* the write fails.
C9_FireRevalidates ==
    timeouts # <<>> =>
        \A io \in IOStates :
            /\ Fire(io).writes # {} =>
                /\ BoundScratch(Head(timeouts))
                /\ Fire(io).writes = {<<Head(timeouts), file_name[Head(timeouts)]>>}
            /\ Head(timeouts) \notin Fire(io).pending_saves

(***************************************************************************)
(* C10                                                                     *)
(***************************************************************************)
\* C10 as stated: when no write fails, an open Bound-Scratch buffer with no
\* deferred save outstanding has a file that holds exactly its content.
C10_EventualContent ==
    \A v \in Views :
        (BoundScratch(v) /\ Scheduled(v) = {}) => fs[NormPath(file_name[v])] = content[v]

\* C10 amended: when no write fails, an open Bound-Scratch buffer with no
\* deferred save outstanding has a file that holds its latest content, each
\* line feed written as the line separator of the platform (exactly the
\* content where that separator is the line feed), whatever the edits and
\* the order of edits and timers before.
C10_EventualContentTextMode ==
    \A v \in Views :
        (BoundScratch(v) /\ Scheduled(v) = {}) =>
            /\ fs[NormPath(file_name[v])] = WriteText(content[v], linesep)
            /\ linesep = LF => fs[NormPath(file_name[v])] = content[v]

\* a Bound-Scratch buffer was edited to a text no first save writes, every
\* deferred save of it has fired, and its file holds that text
C10_Witness ==
    \E v \in Views :
        /\ BoundScratch(v)
        /\ settings.min_content_length > 0
        /\ content[v] = <<" ">>
        /\ Scheduled(v) = {}
        /\ v \notin pending_saves
        /\ fs[NormPath(file_name[v])] = <<" ">>

(***************************************************************************)
(* C11                                                                     *)
(***************************************************************************)
\* the views a run of a handler closed
ClosedBy(w) == {v \in Views : status[v] = "open" /\ w.status[v] = "closed"}

\* C11: close-all saves, marks and closes every Unbound and every
\* Bound-Scratch buffer of the window (a buffer of enough content is on
\* disk before it is closed); afterwards none of them is open, every
\* Bound-External buffer is still open and its file is as it was, and the
\* count reported is the number of buffers closed.
C11_CloseAll ==
    OpenViews # {} =>
        LET w == CloseAllFrom(World("ok"), 1)
        IN  /\ \A v \in Views : (Unbound(v) \/ BoundScratch(v)) =>
                /\ w.status[v] = "closed"
                /\ Len(Strip(content[v])) >= settings.min_content_length =>
                       \E p \in WrittenFor(w, v) :
                           w.fs[NormPath(p)] = WriteText(content[v], linesep)
            /\ \A v \in Views : BoundExternal(v) =>
                /\ w.status[v] = "open"
                /\ WrittenFor(w, v) = {}
                /\ w.fs[NormPath(file_name[v])] = fs[NormPath(file_name[v])]
            /\ w.closed = Cardinality(ClosedBy(w))

(***************************************************************************)
(* C12                                                                     *)
(***************************************************************************)
\* C12: no step of the system (save, edit, deferred save, close, close-all,
\* with or without a refused I/O call) removes a file or a directory: the
\* files on disk, those under the scratchbook root among them, only grow.
C12_FilesOnlyGrow == [][DOMAIN fs \subseteq DOMAIN fs' /\ dirs \subseteq dirs']_vars

\* every view that was opened is closed, and a scratch file is on disk
C12_Witness ==
    /\ \E v \in Views : status[v] = "closed"
    /\ \A v \in Views : status[v] # "open"
    /\ \E p \in DOMAIN fs : Contained(p, RootPath)

(***************************************************************************)
(* The classifier at work: texts typed or pasted into an untitled view,    *)
(* and the first save that names the file after detect_extension.          *)
(***************************************************************************)
MaxTextLen == 4        \* characters the user types into one buffer

\* the characters the user types
Alphabet == {"[", "]", "{", "}", "1", ",", "\n", "#", " ", "a", ":", "-"}

\* the texts the user pastes
SampleJson ==
    <<"{", "\"", "a", "\"", ":", "1", "}">>
SampleSql ==
    <<"S", "E", "L", "E", "C", "T", " ", "*", " ", "F", "R", "O", "M", " ",
      "t">>
SampleCsv ==
    <<"a", ",", "b", ",", "c", "\n", "1", ",", "2", ",", "3", "\n", "4", ",",
      "5", ",", "6">>
SampleMarkdown ==
    <<"#", " ", "T", "i", "t", "l", "e", "\n", "b", "o", "d", "y">>
SampleHtmlDoc ==
    <<"<", "h", "t", "m", "l", ">", "<", "b", "o", "d", "y", ">", "x", "<",
      "/", "b", "o", "d", "y", ">", "<", "/", "h", "t", "m", "l", ">">>
SampleDoctype ==
    <<"<", "!", "D", "O", "C", "T", "Y", "P", "E", " ", "h", "t", "m", "l",
      ">">>
SampleDoctypeDoc ==
    <<"<", "!", "d", "o", "c", "t", "y", "p", "e", " ", "h", "t", "m", "l",
      ">", "<", "p", ">", "x", "<", "/", "p", ">">>
SampleHtmlOpen ==
    <<"<", "H", "T", "M", "L", " ", "l", "a", "n", "g", ">">>
SampleXmlDecl ==
    <<"<", "?", "x", "m", "l", " ", "v", "e", "r", "s", "i", "o", "n", "=",
      "\"", "1", ".", "0", "\"", "?", ">">>
SampleXml ==
    <<"<", "a", ">", "x", "<", "/", "a", ">">>
SampleTsv ==
    <<"a", "\t", "b", "\t", "c", "\n", "1", "\t", "2", "\t", "3">>
SampleLog ==
    <<"I", "N", "F", "O", " ", "a", "\n", "W", "A", "R", "N", " ", "b", "\n",
      "E", "R", "R", "O", "R", " ", "c">>
SampleYaml ==
    <<"k", "e", "y", ":", " ", "v">>
SamplePython ==
    <<"i", "m", "p", "o", "r", "t", " ", "o", "s">>
SampleJavaScript ==
    <<"c", "o", "n", "s", "t", " ", "x", " ", "=", " ", "1">>
SampleBadJsonCsv ==
    <<"{", "a", ",", "b", ",", "c", "\n", "d", ",", "e", ",", "f", "}">>
SampleBadJsonSql ==
    <<"[", "\n", "S", "E", "L", "E", "C", "T", " ", "1", "\n", "]">>
SampleBadJsonMarkdown ==
    <<"[", "\n", "#", " ", "x", "]">>
SampleBadJsonQuotes ==
    <<"{", "'", "a", "'", ":", " ", "1", "}">>
SampleBadJsonTrailing ==
    <<"[", "1", ",", "]">>
Samples ==
    {SampleJson, SampleSql, SampleCsv,
     SampleMarkdown, SampleHtmlDoc, SampleDoctype,
     SampleDoctypeDoc, SampleHtmlOpen, SampleXmlDecl,
     SampleXml, SampleTsv, SampleLog,
     SampleYaml, SamplePython, SampleJavaScript,
     SampleBadJsonCsv, SampleBadJsonSql, SampleBadJsonMarkdown,
     SampleBadJsonQuotes, SampleBadJsonTrailing}

\* the user types one more character into the untitled view v
Type(v, c) ==
    /\ file_name[v] = NoFile
    /\ Len(content[v]) < MaxTextLen
    /\ Edit(v, Append(content[v], c))

\* the user pastes a text over the content of the untitled view v
Paste(v, text) ==
    /\ file_name[v] = NoFile
    /\ Edit(v, text)

\* one scratch buffer, every text saved whatever its length
InitClassify ==
    Start({s \in SettingsSet : s.min_content_length = 0 /\ ~s.organize_by_date
                                  /\ s.scratchbook_folder = Root}, {LF})

NextClassify ==
    \/ NewScratch(1)
    \/ \E c \in Alphabet : Type(1, c)
    \/ \E text \in Samples : Paste(1, text)
    \/ SaveCommand(1, "ok")

SpecClassify == InitClassify /\ [][NextClassify]_vars

(***************************************************************************)
(* C13                                                                     *)
(***************************************************************************)
\* the extension tokens
Tokens ==
    {".txt", ".json", ".xml", ".html", ".csv", ".tsv", ".log", ".sql", ".yaml",
     ".md", ".py", ".js"}

\* no rule of the classifier matches the stripped text s
NoRule(s) ==
    ~(IsJson(s) \/ IsXml(s) \/ IsHtml(s) \/ IsCsv(s) \/ IsTsv(s) \/ IsLog(s)
        \/ IsSql(s) \/ IsYaml(s) \/ IsMarkdown(s) \/ IsPython(s) \/ IsJavaScript(s))

\* the extension of the file a view is linked to
ExtensionOf(v) == file_name[v][Len(file_name[v])]

C14_HtmlBeforeXml ==
    \A v \in OpenViews :
        IsHtml(Strip(content[v])) => detect_extension(content[v]) = ".html"

(***************************************************************************)
(* The browse command: the saved files of the scratchbook folder in a      *)
(* quick panel, the newest first, each with its age and a preview.         *)
(***************************************************************************)
Minute == 60
Hour == 3600
Day == 86400
Week == 604800
MaxPreviewLen == 80

\* the character U+2026 that ends a cut preview
Ellipsis == "..."

\* the two spaces, the character U+00B7 and the two spaces between the age
\* and the preview
Separator == "  -  "

\* dt.strftime("%Y-%m-%d"): the calendar day of the instant
Date(dt) == <<"%Y-%m-%d ">> \o ToStr(dt \div Day)

\* _relative_time(dt) at the instant t of datetime.datetime.now()
relative_time(t, dt) ==
    LET seconds == t - dt
    IN  IF seconds < Minute THEN <<"just now">>
        ELSE IF seconds < Hour THEN ToStr(seconds \div Minute) \o <<"m ago">>
        ELSE IF seconds < Day THEN ToStr(seconds \div Hour) \o <<"h ago">>
        ELSE IF seconds < Week THEN ToStr(seconds \div Day) \o <<"d ago">>
        ELSE Date(dt)

\* reading a text-mode file (newline=None): "\r\n" and "\r" are read as "\n"
RECURSIVE ReadText(_)
ReadText(s) ==
    IF s = <<>> THEN <<>>
    ELSE IF Head(s) = "\r"
         THEN <<"\n">> \o ReadText(IF Len(s) > 1 /\ s[2] = "\n"
                                    THEN SubSeq(s, 3, Len(s)) ELSE Tail(s))
         ELSE <<Head(s)>> \o ReadText(Tail(s))

\* the first line of the sequence that is not empty once stripped
RECURSIVE FirstLine(_)
FirstLine(lines) ==
    IF lines = <<>> THEN <<"(empty)">>
    ELSE LET line == Strip(Head(lines))
         IN  IF line # <<>>
             THEN IF Len(line) > MaxPreviewLen
                  THEN SubSeq(line, 1, MaxPreviewLen) \o <<Ellipsis>>
                  ELSE line
             ELSE FirstLine(Tail(lines))

\* _get_preview(filepath) of a file that holds the text
get_preview(text) == FirstLine(SplitLines(ReadText(text)))

\* os.path.basename
RECURSIVE basename(_)
basename(p) ==
    IF \E i \in 1..Len(p) : p[i] = "/" THEN basename(Tail(p)) ELSE p

\* os.walk(folder): the files of the folder and of the folders below it
Walk(w, folder) == {p \in DOMAIN w.fs : p # folder /\ Contained(p, folder)}

\* self.files after the sort: the newest first, files of one modification
\* time in the order in which the directory lists them
Sorted(w, files) ==
    {o \in [1..Cardinality(files) -> files] :
        /\ \A i, j \in DOMAIN o : i < j => o[i] # o[j]
        /\ \A i, j \in DOMAIN o : i < j => w.mtime[o[i]] >= w.mtime[o[j]]}

\* the row of the quick panel for one file
Row(w, p) ==
    <<basename(p),
      relative_time(now, w.mtime[p]) \o <<Separator>> \o get_preview(w.fs[p])>>

\* the rows of the quick panel, the files listed in the given order
Rows(w, files) == [i \in DOMAIN files |-> Row(w, files[i])]

Listed(w, files) ==
    IF files = <<>> THEN status_message(w) ELSE [w EXCEPT !.panel = Rows(w, files)]

\* ScratchBookBrowseCommand.run
browse(w, files) ==
    LET e == ensure_folder(w, settings.scratchbook_folder)
    IN  IF e.raised THEN e ELSE Listed(e, files)

\* the orders in which the browse command may list the files
Listings(w) == Sorted(w, Walk(w, RootPath))

\* the user runs the browse command
Browse(io) == \E files \in Listings(World(io)) : Commit(browse(World(io), files))

\* the instants at which the clock is read
Instants ==
    {45, 59, Minute, 90, Hour - 1, Hour, 2 * Hour, Day - 1, Day, 2 * Day,
     Week - 1, Week, 10 * Day}

\* time passes
Later(t) ==
    /\ t > now
    /\ now' = t
    /\ UNCHANGED <<settings, linesep, status, content, file_name, scratch, fs,
                   mtime, dirs, pending_saves, timeouts, panel>>

InitBrowse ==
    Start({s \in SettingsSet : ~s.organize_by_date /\ s.scratchbook_folder = Root
                                  /\ s.min_content_length = 1},
          {LF})

NextBrowse ==
    \/ \E v \in Views : NewScratch(v)
    \/ \E v \in Views : \E text \in Contents : Paste(v, text)
    \/ \E v \in Views : SaveCommand(v, "ok")
    \/ \E t \in Instants : Later(t)
    \/ Browse("ok")

SpecBrowse == InitBrowse /\ [][NextBrowse]_vars

\* the age the specification gives for a modification s whole seconds old,
\* made at the instant dt
SpecifiedAge(s, dt) ==
    IF s < 60 THEN <<"just now">>
    ELSE IF s < 3600 THEN ToStr(s \div 60) \o <<"m ago">>
    ELSE IF s < 86400 THEN ToStr(s \div 3600) \o <<"h ago">>
    ELSE IF s <= 7 * 86400 THEN ToStr(s \div 86400) \o <<"d ago">>
    ELSE Date(dt)

\* C15: every row of the quick panel of the browse command starts with the
\* specified age of its file: "just now" below a minute, whole minutes below
\* an hour, whole hours below a day, whole days up to 7 days, and the
\* absolute date only beyond 7 days.
C15_RelativeAge ==
    \A files \in Listings(World("ok")) :
        LET w == browse(World("ok"), files)
        IN  \A i \in DOMAIN files :
                /\ Len(w.panel) = Len(files)
                /\ StartsWith(w.panel[i][2],
                              SpecifiedAge(now - mtime[files[i]], mtime[files[i]])
                                  \o <<Separator>>)

\* C16: a manual save of a Bound-Scratch buffer, whatever its content (also
\* content shorter than min_content_length), writes the content of the
\* buffer to its file (each line feed as the line separator of the
\* platform) and leaves the buffer bound to that file.
C16_BoundSaveOverwrites ==
    \A v \in Views : BoundScratch(v) =>
        LET w == save_command(World("ok"), v)
        IN  /\ w.fs[NormPath(file_name[v])] = WriteText(content[v], linesep)
            /\ w.file_name[v] = file_name[v]
            /\ w.status[v] = "open"

\* C17: an edit of a Bound-Scratch buffer adds one deferred save to those
\* already scheduled and removes none; an edit of an Unbound or
\* Bound-External buffer schedules nothing; a deferred save that fires on an
\* open Bound-Scratch buffer writes the content the buffer has at that
\* moment.
C17_EveryEditSchedules ==
    /\ \A v \in OpenViews : \A text \in Contents :
           LET w == Modify(v, text)
           IN  /\ BoundScratch(v) => w.timeouts = Append(timeouts, v)
               /\ (Unbound(v) \/ BoundExternal(v)) =>
                      w.timeouts = timeouts /\ w.pending_saves = pending_saves
    /\ (timeouts # <<>> /\ BoundScratch(Head(timeouts))) =>
           Fire("ok").fs[NormPath(file_name[Head(timeouts)])]
               = WriteText(content[Head(timeouts)], linesep)

\* the rules after the JSON rule, in their order, the first match winning
RemainingRules(s) ==
    IF IsXml(s) THEN ".xml"
    ELSE IF IsHtml(s) THEN ".html"
    ELSE IF IsCsv(s) THEN ".csv"
    ELSE IF IsTsv(s) THEN ".tsv"
    ELSE IF IsLog(s) THEN ".log"
    ELSE IF IsSql(s) THEN ".sql"
    ELSE IF IsYaml(s) THEN ".yaml"
    ELSE IF IsMarkdown(s) THEN ".md"
    ELSE IF IsPython(s) THEN ".py"
    ELSE IF IsJavaScript(s) THEN ".js"
    ELSE ".txt"

\* the stripped text is bracket-delimited and json.loads refuses it
BadJson(s) == Bracketed(s) /\ ~JsonLoads(s)

Touched(w, v) == {NormPath(p) : p \in WrittenFor(w, v)}

\* the handlers that make the first save of an Unbound buffer v
FirstSaves(io, v) ==
    {save_scratch_buffer(World(io), v), save_command(World(io), v),
     on_pre_close(World(io), v), on_deactivated(World(io), v)}

\* C19: the first save of an Unbound buffer, by the manual save or an
\* auto-save and whether its write succeeds or fails, writes no path that
\* existed before it and leaves the content of every file already on disk
\* unchanged; the first saves that one close-all makes for several Unbound
\* buffers write paths that did not exist before and that differ from
\* buffer to buffer.
C19_FirstSaveNeverOverwrites ==
    \A io \in IOStates :
        /\ \A v \in Views : Unbound(v) =>
               \A w \in FirstSaves(io, v) :
                   /\ Touched(w, v) \cap DOMAIN fs = {}
                   /\ \A p \in DOMAIN fs : p \in DOMAIN w.fs /\ w.fs[p] = fs[p]
        /\ OpenViews # {} =>
               LET w == CloseAllFrom(World(io), 1)
               IN  \A u, v \in Views : (Unbound(u) /\ Unbound(v)) =>
                       /\ Touched(w, v) \cap DOMAIN fs = {}
                       /\ u # v => Touched(w, u) \cap Touched(w, v) = {}

\* an Unbound buffer is about to be saved under a timestamp and extension
\* whose first file name is taken by the file of another buffer: the save
\* creates the next name
C19_Witness ==
    \E u, v \in Views :
        /\ Unbound(v) /\ BoundScratch(u)
        /\ NormPath(file_name[u]) = NormPath(Candidate(0, Extension(content[v])))
        /\ Touched(save_scratch_buffer(World("ok"), v), v)
               = {NormPath(Candidate(1, Extension(content[v])))}

\* C20: the pending-save map holds an entry for a buffer only while a
\* deferred save of that buffer is scheduled and has not fired, and it is
\* empty when no deferred save is left, also when buffers were closed with
\* deferred saves outstanding.
C20_PendingOnlyWhileScheduled ==
    /\ \A v \in pending_saves : Scheduled(v) # {}
    /\ timeouts = <<>> => pending_saves = {}

\* the last deferred save left is that of a buffer closed in the meantime;
\* it is marked pending, and firing it leaves the map empty
C20_Witness ==
    /\ timeouts # <<>>
    /\ status[Head(timeouts)] = "closed"
    /\ Tail(timeouts) = <<>>
    /\ pending_saves = {Head(timeouts)}
    /\ Fire("ok").pending_saves = {}

=============================================================================
